---- MODULE Spec2Model ----
(***************************************************************************)
(* Applanix POS-LV odometry driver (applanix/src/odometry.cc).             *)
(*                                                                         *)
(* Units: lengths are whole metres, angles are whole degrees.  An angle in *)
(* radians is represented by the number of degrees it measures, so         *)
(* from_degrees (a scaling by pi/180) keeps the number and changes only    *)
(* the unit; pi is 180 and 2*pi is 360 in that representation.             *)
(* A sample's latitude and longitude are represented by their UTM          *)
(* projection (utm_e, utm_n): UTM() is a pure function of (lat, lon).      *)
(***************************************************************************)
EXTENDS Integers, Sequences, FiniteSets, TLC

\* ------------------------------------------------------------------ bounds
MaxArrivals == 3      \* samples delivered by the device in one run
MaxHeading == 360     \* compass headings are 0..MaxHeading degrees
MaxCalls == 2         \* GlobalToLocal calls followed in one run
MaxDuration == 3      \* NavTimer durations are -1..MaxDuration time units
MaxPeriod == 2        \* a cycle lasts 1..MaxPeriod time units
MaxOps == 4           \* NavTimer calls and skipped cycles followed
MaxValue == 5         \* 16-bit values handed to NavEstopState: 0..MaxValue

\* ------------------------------------------------------- program constants
origin_grid == 10000  \* 10 km grid
qDepth == 1           \* ROS topic queue size
ExitOk == 0           \* return 0 at the end of main
ExitNoDevice == 2     \* return 2: connect_socket failed
ExitUsage == 9        \* return 9: getParameters failed
Done == 0             \* NavEstopState::Done
Pause == 1            \* NavEstopState::Pause
Run == 2              \* NavEstopState::Run
N_states == 3         \* NavEstopState::N_states

Alignments == {"Invalid", "Fine", "Full"}
Gears == {"Drive", "Reverse", "Park"}

\* The grp1 payloads the device delivers (everything but time and alignment).
Payloads ==
  { [utm_e |-> 12345, utm_n |-> 67890, alt |-> 30, heading |-> 0,
     roll |-> 1, pitch |-> 2, speed |-> 5, vel_down |-> 1,
     arate_lon |-> 1, arate_trans |-> 2, arate_down |-> 3],
    [utm_e |-> 15000, utm_n |-> 64999, alt |-> -2, heading |-> 270,
     roll |-> 0, pitch |-> -1, speed |-> 3, vel_down |-> 0,
     arate_lon |-> 0, arate_trans |-> 0, arate_down |-> -1],
    [utm_e |-> 24999, utm_n |-> 5001, alt |-> 7, heading |-> 271,
     roll |-> -3, pitch |-> 0, speed |-> 2, vel_down |-> -1,
     arate_lon |-> 2, arate_trans |-> -1, arate_down |-> 0] }

PayloadA == CHOOSE p \in Payloads : p.utm_e = 12345
PayloadB == CHOOSE p \in Payloads : p.utm_e = 15000
PayloadC == CHOOSE p \in Payloads : p.utm_e = 24999

MkSample(t, a, p) ==
  [time |-> t, alignment |-> a, utm_e |-> p.utm_e, utm_n |-> p.utm_n,
   alt |-> p.alt, heading |-> p.heading, roll |-> p.roll, pitch |-> p.pitch,
   speed |-> p.speed, vel_down |-> p.vel_down, arate_lon |-> p.arate_lon,
   arate_trans |-> p.arate_trans, arate_down |-> p.arate_down]

\* The packets the device delivers.  Timestamp 0 is the value of a
\* default-constructed ros::Time, which last_time starts with.
Samples ==
  { MkSample(1, "Invalid", PayloadA), MkSample(1, "Fine", PayloadA),
    MkSample(1, "Full", PayloadB), MkSample(2, "Fine", PayloadB),
    MkSample(0, "Fine", PayloadC) }

ZeroPayload ==
  [utm_e |-> 0, utm_n |-> 0, alt |-> 0, heading |-> 0, roll |-> 0, pitch |-> 0,
   speed |-> 0, vel_down |-> 0, arate_lon |-> 0, arate_trans |-> 0,
   arate_down |-> 0]

\* memset(&adata, 0, ...); adata.grp1.alignment = ApplStatusInvalid
ZeroData == MkSample(0, "Invalid", ZeroPayload)

ZeroPose == [x |-> 0, y |-> 0, z |-> 0, roll |-> 0, pitch |-> 0, yaw |-> 0]

ZeroPosition3D == [pos |-> ZeroPose, vel |-> ZeroPose]

\* ------------------------------------------------------------ pure helpers

\* rint(n/d) for d > 0: nearest integer, ties to the even neighbour.
Rint(n, d) ==
  LET q == n \div d
      r == n % d
  IN  IF 2 * r < d THEN q
      ELSE IF 2 * r > d THEN q + 1
      ELSE IF q % 2 = 0 THEN q ELSE q + 1

\* C fmod: the remainder carries the sign of the dividend.
Fmod(x, m) == IF x >= 0 THEN x % m ELSE -((-x) % m)

from_degrees(d) == d

normalize_angle_positive(a) == Fmod(Fmod(a, 360) + 360, 360)

\* A wrap that sends pi to -pi.
normalize_angle_Closed(angle) ==
  LET a == normalize_angle_positive(angle)
  IN  IF a >= 180 THEN a - 360 ELSE a

normalize_angle(angle) ==
  LET a == normalize_angle_positive(angle)
  IN  IF a > 180 THEN a - 360 ELSE a

\* ------------------------------------------------------------------- state
VARIABLES
  pc,                   \* position of main: "main", "connect", "loop",
                        \* "putPose", "spin", "delete", "done"
  exit_status,          \* <<>> while running, <<n>> after main returned n
  ros_ok,               \* ros::ok()
  device,               \* applanix_: "closed", "open", "deleted"
  queue,                \* packets queued in the Applanix data socket
  adata,                \* saved applanix data packet
  last_time,            \* getNewData's static last_time
  first_pose_received,  \* GlobalToLocal's static flag
  map_origin,           \* GlobalToLocal's static map_origin
  shifter_gear_,        \* transmission gear
  shifter_msgs,         \* shifter/state subscription queue (qDepth deep)
  odom_pos3d,           \* main's odom_pos3d
  odom_time,            \* main's odom_time
  gps_pub,              \* GpsInfo messages published in the current cycle
  odom_pub,             \* Odometry messages published in the current cycle
  tf_pub,               \* transforms broadcast in the current cycle
  cyc,                  \* what getOdom did in the current cycle
  prev,                 \* what getOdom did in the cycle before
  arrived,              \* samples delivered so far
  accepted,             \* TRUE once getNewData has accepted a sample
  gearlog,              \* last: the gear of the newest shifter message;
                        \* stale: Odometry messages published since it
                        \* arrived whose cycle read another gear
  runs,                 \* GlobalToLocal's statics and calls in two runs
  conv,                 \* one heading conversion
  timer,                \* a NavTimer: cycle (the period 1 / Frequency()),
                        \* time_remaining, timer_running
  tlog,                 \* the last NavTimer call and the calls so far
  estop,                \* a NavEstopState: state, the value of a state_t
  elog                  \* the last NavEstopState call and what Name() did

vars == <<pc, exit_status, ros_ok, device, queue, adata, last_time,
          first_pose_received, map_origin, shifter_gear_, shifter_msgs,
          odom_pos3d, odom_time, gps_pub, odom_pub, tf_pub, cyc, prev,
          arrived, accepted, gearlog, runs, conv, timer, tlog, estop,
          elog>>

\* The variables of the function specifications.
timerVars == <<timer, tlog>>

estopVars == <<estop, elog>>

fnVars == <<runs, conv, timer, tlog, estop, elog>>

\* ---------------------------------------------------------- SampleSource

\* DevApplanix::get_packet: 0 and the oldest queued packet, or non-zero and
\* *adata left alone when none is queued.
get_packet(q, ad) ==
  IF q = <<>> THEN [rc |-> 1, adata |-> ad, queue |-> q]
  ELSE [rc |-> 0, adata |-> Head(q), queue |-> Tail(q)]

\* A drain loop that was left out: only the first packet is read.
DrainLoop_Once(q, ad) == [adata |-> ad, queue |-> q]

\* do { rc = get_packet(adata); } while (rc == 0);
RECURSIVE DrainLoop(_, _)
DrainLoop(q, ad) ==
  LET g == get_packet(q, ad)
  IN  IF g.rc = 0 THEN DrainLoop(g.queue, g.adata)
      ELSE [adata |-> g.adata, queue |-> g.queue]

\* A duplicate check that never fires.
IsDuplicate_Never(t, lt) == FALSE

\* A duplicate check that fires for every packet.
IsDuplicate_Always(t, lt) == TRUE

\* if (adata->time == last_time): no new navigation solution.
IsDuplicate(t, lt) == t = lt

\* An alignment check that never fires.
IsInvalid_Never(a) == FALSE

\* if (adata->grp1.alignment == ApplStatusInvalid): no valid solution yet.
\* A validity test that takes Fine for the "no solution yet" status.
IsInvalid_Fine(a) == a = "Fine"

IsInvalid(a) == a = "Invalid"

\* A getNewData that remembers the time before it looks at the alignment.
getNewData_EarlyRemember(q, ad, lt) ==
  LET first == get_packet(q, ad)
  IN  IF first.rc # 0
      THEN [ret |-> FALSE, adata |-> ad, last_time |-> lt, queue |-> q]
      ELSE LET d == DrainLoop(first.queue, first.adata)
           IN  IF d.adata.time = lt
               THEN [ret |-> FALSE, adata |-> d.adata, last_time |-> lt,
                     queue |-> d.queue]
               ELSE [ret |-> d.adata.alignment # "Invalid",
                     adata |-> d.adata, last_time |-> d.adata.time,
                     queue |-> d.queue]

\* getNewData: ret is its return value, adata / last_time / queue the state
\* it leaves behind.
getNewData(q, ad, lt) ==
  LET first == get_packet(q, ad)
  IN  IF first.rc # 0
      THEN [ret |-> FALSE, adata |-> ad, last_time |-> lt, queue |-> q]
      ELSE LET d == DrainLoop(first.queue, first.adata)
           IN  IF IsDuplicate(d.adata.time, lt)
               THEN [ret |-> FALSE, adata |-> d.adata, last_time |-> lt,
                     queue |-> d.queue]
               ELSE IF IsInvalid(d.adata.alignment)
               THEN [ret |-> FALSE, adata |-> d.adata, last_time |-> lt,
                     queue |-> d.queue]
               ELSE [ret |-> TRUE, adata |-> d.adata,
                     last_time |-> d.adata.time, queue |-> d.queue]

\* ------------------------------------------------------ CoordinateNormalizer

\* Truncation in place of rint.
SnapToGrid_Trunc(v) == (v \div origin_grid) * origin_grid

\* Rounding up in place of rint.
SnapToGrid_Ceil(v) == ((v + origin_grid - 1) \div origin_grid) * origin_grid

\* rint(v/origin_grid) * origin_grid
SnapToGrid(v) == Rint(v, origin_grid) * origin_grid

\* A flag that is never remembered: every pose is taken for the initial one.
IsInitialPose_Always(first_recv) == TRUE

\* bool initial_pose = !first_pose_received;
IsInitialPose(first_recv) == ~first_recv

\* A GlobalToLocal that subtracts the origin it had on entry.
GlobalToLocal_StaleOrigin(first_recv, origin, current) ==
  LET initial_pose == ~first_recv
      snapped == [current EXCEPT
                    !.x = Rint(current.x, origin_grid) * origin_grid,
                    !.y = Rint(current.y, origin_grid) * origin_grid]
  IN  [initial_pose |-> initial_pose,
       first_pose_received |-> TRUE,
       map_origin |-> IF initial_pose THEN snapped ELSE origin,
       current |-> [current EXCEPT !.x = current.x - origin.x,
                                   !.y = current.y - origin.y,
                                   !.z = current.z - origin.z]]

\* A GlobalToLocal that subtracts one entire Pose3D from the other.
GlobalToLocal_WholePose(first_recv, origin, current) ==
  LET initial_pose == ~first_recv
      snapped == [current EXCEPT
                    !.x = Rint(current.x, origin_grid) * origin_grid,
                    !.y = Rint(current.y, origin_grid) * origin_grid]
      new_origin == IF initial_pose THEN snapped ELSE origin
  IN  [initial_pose |-> initial_pose,
       first_pose_received |-> TRUE,
       map_origin |-> new_origin,
       current |-> [x |-> current.x - new_origin.x,
                    y |-> current.y - new_origin.y,
                    z |-> current.z - new_origin.z,
                    roll |-> current.roll - new_origin.roll,
                    pitch |-> current.pitch - new_origin.pitch,
                    yaw |-> current.yaw - new_origin.yaw]]

\* GlobalToLocal(current) with its statics passed in and returned.
GlobalToLocal(first_recv, origin, current) ==
  LET initial_pose == IsInitialPose(first_recv)
      snapped == [current EXCEPT !.x = SnapToGrid(current.x),
                                 !.y = SnapToGrid(current.y)]
      new_origin == IF initial_pose THEN snapped ELSE origin
  IN  [initial_pose |-> initial_pose,
       first_pose_received |-> (first_recv \/ initial_pose),
       map_origin |-> new_origin,
       current |-> [current EXCEPT !.x = current.x - new_origin.x,
                                   !.y = current.y - new_origin.y,
                                   !.z = current.z - new_origin.z]]

\* -------------------------------------------------------- ConventionAdapter

\* normalize_angle(from_degrees(90 - heading))
HeadingToYaw(heading) == normalize_angle(from_degrees(90 - heading))

\* The global pose getOdom fills in before GlobalToLocal.
GlobalPose(ad) ==
  [x |-> ad.utm_e, y |-> ad.utm_n, z |-> ad.alt,
   roll |-> from_degrees(ad.roll),
   pitch |-> from_degrees(-ad.pitch),
   yaw |-> HeadingToYaw(ad.heading)]

\* A sign flip for every gear but Drive.
SignedSpeed_NonDrive(speed, gear) == IF gear # "Drive" THEN -speed ELSE speed

\* double speed = adata.grp1.speed; negated when the gear is Reverse.
SignedSpeed(speed, gear) == IF gear = "Reverse" THEN -speed ELSE speed

\* The velocity getOdom fills in for the gear it reads.
Velocity(ad, gear) ==
  LET speed == SignedSpeed(ad.speed, gear)
  IN  [x |-> speed, y |-> 0, z |-> -ad.vel_down,
       roll |-> from_degrees(ad.arate_lon),
       pitch |-> from_degrees(-ad.arate_trans),
       yaw |-> from_degrees(-ad.arate_down)]

\* publishGPS: the GpsInfo message for a packet.
publishGPS(ad) ==
  [stamp |-> ad.time, altitude |-> ad.alt, utm_e |-> ad.utm_e,
   utm_n |-> ad.utm_n,
   quality |-> CASE ad.alignment = "Full" -> "DGPS_FIX"
                 [] ad.alignment = "Fine" -> "GPS_FIX"
                 [] OTHER -> "INVALID_FIX"]

\* A getOdom that asks for publication of the initial pose too.
ShouldPublish_Always(initial_pose) == TRUE

\* if (GlobalToLocal(&odom_pos3d->pos)) return false; ... return true;
ShouldPublish(initial_pose) == ~initial_pose

\* getOdom: ret is its return value; the other fields are the state it
\* leaves behind and the GpsInfo messages it published.
getOdom(q, ad, lt, first_recv, origin, gear, pos3d, otime) ==
  LET nd == getNewData(q, ad, lt)
  IN  IF ~nd.ret
      THEN [ret |-> FALSE, got |-> FALSE, initial |-> FALSE,
            queue |-> nd.queue, adata |-> nd.adata, last_time |-> nd.last_time,
            first_pose_received |-> first_recv, map_origin |-> origin,
            odom_pos3d |-> pos3d, odom_time |-> otime, gps |-> <<>>]
      ELSE LET g2l == GlobalToLocal(first_recv, origin, GlobalPose(nd.adata))
               located == [pos3d EXCEPT !.pos = g2l.current]
           IN  [ret |-> ShouldPublish(g2l.initial_pose), got |-> TRUE,
                initial |-> g2l.initial_pose,
                queue |-> nd.queue, adata |-> nd.adata,
                last_time |-> nd.last_time,
                first_pose_received |-> g2l.first_pose_received,
                map_origin |-> g2l.map_origin,
                odom_pos3d |-> IF g2l.initial_pose THEN located
                               ELSE [located EXCEPT
                                       !.vel = Velocity(nd.adata, gear)],
                odom_time |-> nd.adata.time,
                gps |-> <<publishGPS(nd.adata)>>]

\* putPose: the transform and the Odometry message.  The quaternion built
\* from roll, pitch and yaw is represented by that triple.
\* A transform that is left with the default (zero) header stamp.
TransformOf_NoStamp(pos3d, otime) ==
  [stamp |-> 0, x |-> pos3d.pos.x, y |-> pos3d.pos.y, z |-> pos3d.pos.z,
   roll |-> pos3d.pos.roll, pitch |-> pos3d.pos.pitch, yaw |-> pos3d.pos.yaw]

TransformOf(pos3d, otime) ==
  [stamp |-> otime, x |-> pos3d.pos.x, y |-> pos3d.pos.y, z |-> pos3d.pos.z,
   roll |-> pos3d.pos.roll, pitch |-> pos3d.pos.pitch, yaw |-> pos3d.pos.yaw]

OdometryOf(pos3d, otime) ==
  [stamp |-> otime, pose |-> pos3d.pos, twist |-> pos3d.vel]

\* A callback that does not store the gear.
getShifter_Ignore(gear, msgs) == gear

\* getShifter applied to every queued shifter message, oldest first.
RECURSIVE getShifter(_, _)
getShifter(gear, msgs) ==
  IF msgs = <<>> THEN gear ELSE getShifter(Head(msgs), Tail(msgs))

\* ---------------------------------------------------------- NavEstopState

\* The 16-bit values an assignment or an E-stop message can carry, and the
\* values a state_t variable can hold by its declaration.
Values == 0..MaxValue
StateValues == {Done, Pause, Run, N_states}

state_name == <<"Done", "Pause", "Run">>

\* (NavEstopState::state_t) value: the value itself when it is in the range
\* of the enumeration, some value of the underlying type otherwise.
CastToState(value) == IF value <= N_states THEN {value} ELSE Values

\* What state_name[state] can give: the table's entry inside the table, and
\* past its end any entry, some other bytes or a fault.
NameLookup(state) ==
  IF state < N_states
  THEN {state_name[state + 1]}
  ELSE {"Done", "Pause", "Run", "garbage", "fault"}

\* NavEstopState(): the default constructor.
NavEstopState == [state |-> Pause]

\* elog before any call but the default constructor.  op: the last call;
\* set_by, arg: the last constructor or assignment and its argument; name:
\* what the last Name() returned; in_table: its index was below N_states.
NoEstopLog ==
  [op |-> "NavEstopState()", set_by |-> "NavEstopState()", arg |-> Pause,
   name |-> "", in_table |-> TRUE]

\* --------------------------------------------------------------- NavTimer

\* Times are whole time units; one cycle, 1.0 / cycle->Frequency(), lasts
\* t.cycle of them.
Durations == -1..MaxDuration
Periods == 1..MaxPeriod

Cancel(t) == [t EXCEPT !.timer_running = FALSE]

Start(t, duration) ==
  [t EXCEPT !.timer_running = TRUE, !.time_remaining = duration]

\* A Restart that starts the timer whatever its state.
Restart_Always(t, duration) == Start(t, duration)

Restart(t, duration) ==
  IF t.timer_running /\ t.time_remaining > 0 THEN t ELSE Start(t, duration)

\* A Check that needs the remaining time to pass zero.
Check_Strict(t) ==
  IF ~t.timer_running
  THEN [ret |-> FALSE, timer |-> t]
  ELSE LET r == t.time_remaining - t.cycle
       IN  [ret |-> r < 0, timer |-> [t EXCEPT !.time_remaining = r]]

\* Check: ret is its return value, timer the object it leaves behind.
Check(t) ==
  IF ~t.timer_running
  THEN [ret |-> FALSE, timer |-> t]
  ELSE LET r == t.time_remaining - t.cycle
       IN  [ret |-> r <= 0, timer |-> [t EXCEPT !.time_remaining = r]]

\* The constructor: the members hold whatever the storage held (tr, run)
\* until Cancel clears timer_running; time_remaining is left as it was.
NavTimer(_cycle, tr, run) ==
  Cancel([cycle |-> _cycle, time_remaining |-> tr, timer_running |-> run])

\* tlog before the first call.  op, duration, before, ret: the last call,
\* its argument, the timer it found and what Check returned; set: a Start
\* has taken effect, the last one with duration started; checks: Check
\* calls since then that found the timer running; skipped: cycles since
\* then without a Check call; ops: calls and skipped cycles so far.
NoLog(t) ==
  [op |-> "none", duration |-> 0, before |-> t, ret |-> FALSE,
   set |-> FALSE, started |-> 0, checks |-> 0, skipped |-> 0, ops |-> 0]

\* ----------------------------------------------------------------- driver

\* cyc before the first cycle.  ran: a cycle has run; had: a packet was
\* queued when it began, n of them, newest being the last one; left: packets
\* still queued when getNewData returned; got, initial, ret: what
\* getNewData, GlobalToLocal and getOdom returned; first_accept: no sample
\* had been accepted before; pos3d_kept: odom_pos3d and odom_time came out
\* as they went in; the rest is the state the cycle began in.
NoCycle ==
  [ran |-> FALSE, had |-> FALSE, n |-> 0, newest |-> ZeroData, left |-> 0,
   got |-> FALSE, first_accept |-> FALSE, initial |-> FALSE, ret |-> FALSE,
   last_before |-> 0, idle_before |-> TRUE, origin_before |-> ZeroPose,
   pos3d_kept |-> TRUE, gear |-> "Drive"]

\* prev before the second cycle: the same for the cycle before.
NoPrev == [had |-> FALSE, time |-> 0, got |-> FALSE, last_before |-> 0]

\* No run has called GlobalToLocal: its statics as constructed.
NoRun ==
  [first_pose_received |-> FALSE, map_origin |-> ZeroPose, calls |-> 0,
   first_in |-> ZeroPose, first_out |-> ZeroPose, first_ret |-> FALSE,
   last_in |-> ZeroPose, last_out |-> ZeroPose, last_ret |-> FALSE]

NoRuns == [r \in {"A", "B"} |-> NoRun]

NoConv == [heading |-> 0, yaw |-> 0, done |-> FALSE]

InitDriver ==
  /\ pc = "main"
  /\ exit_status = <<>>
  /\ ros_ok = TRUE
  /\ device = "none"
  /\ queue = <<>>
  /\ adata = ZeroData
  /\ last_time = 0
  /\ first_pose_received = FALSE
  /\ map_origin = ZeroPose
  /\ shifter_gear_ = "Drive"
  /\ shifter_msgs = <<>>
  /\ odom_pos3d = ZeroPosition3D
  /\ odom_time = 0
  /\ gps_pub = <<>>
  /\ odom_pub = <<>>
  /\ tf_pub = <<>>
  /\ cyc = NoCycle
  /\ prev = NoPrev
  /\ arrived = 0
  /\ accepted = FALSE
  /\ gearlog = [last |-> "Drive", stale |-> 0]

Init ==
  /\ InitDriver
  /\ runs = NoRuns
  /\ conv = NoConv
  /\ timer = NavTimer(1, 0, FALSE)
  /\ tlog = NoLog(timer)
  /\ estop = NavEstopState
  /\ elog = NoEstopLog

\* main up to the subscription: getParameters creates the device interface
\* or makes main return 9.
GetParameters ==
  /\ pc = "main"
  /\ \E rc \in {0, 1} :
       IF rc # 0
       THEN /\ pc' = "done"
            /\ exit_status' = <<ExitUsage>>
            /\ UNCHANGED device
       ELSE /\ pc' = "connect"
            /\ device' = "created"
            /\ UNCHANGED exit_status
  /\ UNCHANGED <<ros_ok, queue, adata, last_time, first_pose_received,
                 map_origin, shifter_gear_, shifter_msgs, odom_pos3d,
                 odom_time, gps_pub, odom_pub, tf_pub, cyc, prev, arrived,
                 accepted>>
  /\ UNCHANGED gearlog
  /\ UNCHANGED fnVars

\* A main that goes on into the loop when connect_socket failed.
ConnectSocket_IgnoreFailure ==
  /\ pc = "connect"
  /\ \E rc \in {0, 1} :
       /\ pc' = "loop"
       /\ device' = IF rc # 0 THEN device ELSE "open"
       /\ UNCHANGED exit_status
  /\ UNCHANGED <<ros_ok, queue, adata, last_time, first_pose_received,
                 map_origin, shifter_gear_, shifter_msgs, odom_pos3d,
                 odom_time, gps_pub, odom_pub, tf_pub, cyc, prev, arrived,
                 accepted>>
  /\ UNCHANGED gearlog
  /\ UNCHANGED fnVars

\* applanix_->connect_socket(): main returns 2 when it fails.
ConnectSocket ==
  /\ pc = "connect"
  /\ \E rc \in {0, 1} :
       IF rc # 0
       THEN /\ pc' = "done"
            /\ exit_status' = <<ExitNoDevice>>
            /\ UNCHANGED device
       ELSE /\ pc' = "loop"
            /\ device' = "open"
            /\ UNCHANGED exit_status
  /\ UNCHANGED <<ros_ok, queue, adata, last_time, first_pose_received,
                 map_origin, shifter_gear_, shifter_msgs, odom_pos3d,
                 odom_time, gps_pub, odom_pub, tf_pub, cyc, prev, arrived,
                 accepted>>
  /\ UNCHANGED gearlog
  /\ UNCHANGED fnVars

\* One pass of while(ros::ok()) up to the return of getOdom.
Cycle ==
  /\ pc = "loop"
  /\ ros_ok
  /\ LET r == getOdom(queue, adata, last_time, first_pose_received,
                      map_origin, shifter_gear_, odom_pos3d, odom_time)
     IN  /\ queue' = r.queue
         /\ adata' = r.adata
         /\ last_time' = r.last_time
         /\ first_pose_received' = r.first_pose_received
         /\ map_origin' = r.map_origin
         /\ odom_pos3d' = r.odom_pos3d
         /\ odom_time' = r.odom_time
         /\ gps_pub' = r.gps
         /\ odom_pub' = <<>>
         /\ tf_pub' = <<>>
         /\ accepted' = (accepted \/ r.got)
         /\ cyc' = [ran |-> TRUE, had |-> (queue # <<>>), n |-> Len(queue),
                    newest |-> IF queue = <<>> THEN ZeroData
                               ELSE queue[Len(queue)],
                    left |-> Len(r.queue), got |-> r.got,
                    first_accept |-> (r.got /\ ~accepted),
                    initial |-> r.initial, ret |-> r.ret,
                    last_before |-> last_time,
                    idle_before |-> ~first_pose_received,
                    origin_before |-> map_origin,
                    pos3d_kept |-> (r.odom_pos3d = odom_pos3d
                                    /\ r.odom_time = odom_time),
                    gear |-> shifter_gear_]
         /\ prev' = [had |-> cyc.had, time |-> cyc.newest.time,
                     got |-> cyc.got, last_before |-> cyc.last_before]
         /\ pc' = IF r.ret THEN "putPose" ELSE "spin"
  /\ UNCHANGED <<exit_status, ros_ok, device, shifter_gear_, shifter_msgs,
                 arrived>>
  /\ UNCHANGED gearlog
  /\ UNCHANGED fnVars

\* putPose: broadcast the transform, then publish the Odometry message.
PutPose ==
  /\ pc = "putPose"
  /\ tf_pub' = Append(tf_pub, TransformOf(odom_pos3d, odom_time))
  /\ odom_pub' = Append(odom_pub, OdometryOf(odom_pos3d, odom_time))
  /\ gearlog' = IF cyc.gear # gearlog.last
                THEN [gearlog EXCEPT !.stale = gearlog.stale + 1]
                ELSE gearlog
  /\ pc' = "spin"
  /\ UNCHANGED <<exit_status, ros_ok, device, queue, adata, last_time,
                 first_pose_received, map_origin, shifter_gear_, shifter_msgs,
                 odom_pos3d, odom_time, gps_pub, cyc, prev, arrived, accepted>>
  /\ UNCHANGED fnVars

\* ros::spinOnce() runs getShifter for the queued shifter messages; then
\* cycle.sleep() and back to the top of the loop.
SpinOnce ==
  /\ pc = "spin"
  /\ shifter_gear_' = getShifter(shifter_gear_, shifter_msgs)
  /\ shifter_msgs' = <<>>
  /\ pc' = "loop"
  /\ UNCHANGED <<exit_status, ros_ok, device, queue, adata, last_time,
                 first_pose_received, map_origin, odom_pos3d, odom_time,
                 gps_pub, odom_pub, tf_pub, cyc, prev, arrived, accepted>>
  /\ UNCHANGED gearlog
  /\ UNCHANGED fnVars

\* ros::ok() is false at the top of the loop: delete applanix_; return 0.
ExitLoop_NoDelete ==
  /\ pc = "loop"
  /\ ~ros_ok
  /\ exit_status' = <<ExitOk>>
  /\ pc' = "done"
  /\ UNCHANGED <<ros_ok, device, queue, adata, last_time,
                 first_pose_received, map_origin, shifter_gear_, shifter_msgs,
                 odom_pos3d, odom_time, gps_pub, odom_pub, tf_pub, cyc, prev,
                 arrived, accepted>>
  /\ UNCHANGED gearlog
  /\ UNCHANGED fnVars

ExitLoop ==
  /\ pc = "loop"
  /\ ~ros_ok
  /\ device' = "deleted"
  /\ exit_status' = <<ExitOk>>
  /\ pc' = "done"
  /\ UNCHANGED <<ros_ok, queue, adata, last_time, first_pose_received,
                 map_origin, shifter_gear_, shifter_msgs, odom_pos3d,
                 odom_time, gps_pub, odom_pub, tf_pub, cyc, prev, arrived,
                 accepted>>
  /\ UNCHANGED gearlog
  /\ UNCHANGED fnVars

\* The device delivers a packet to the connected data socket.
PacketArrives ==
  /\ device = "open"
  /\ arrived < MaxArrivals
  /\ \E s \in Samples : queue' = Append(queue, s)
  /\ arrived' = arrived + 1
  /\ UNCHANGED <<pc, exit_status, ros_ok, device, adata, last_time,
                 first_pose_received, map_origin, shifter_gear_, shifter_msgs,
                 odom_pos3d, odom_time, gps_pub, odom_pub, tf_pub, cyc, prev,
                 accepted>>
  /\ UNCHANGED gearlog
  /\ UNCHANGED fnVars

\* A shifter/state message reaches the subscription queue, which keeps the
\* newest qDepth messages.
ShifterMessage ==
  /\ pc \in {"loop", "putPose", "spin"}
  /\ \E g \in Gears :
       /\ shifter_msgs' = IF Len(shifter_msgs) >= qDepth
                          THEN Append(Tail(shifter_msgs), g)
                          ELSE Append(shifter_msgs, g)
       /\ gearlog' = [last |-> g, stale |-> 0]
  /\ UNCHANGED <<pc, exit_status, ros_ok, device, queue, adata, last_time,
                 first_pose_received, map_origin, shifter_gear_, odom_pos3d,
                 odom_time, gps_pub, odom_pub, tf_pub, cyc, prev, arrived,
                 accepted>>
  /\ UNCHANGED fnVars

\* The node is asked to shut down.
ShutdownRequest ==
  /\ pc \in {"loop", "putPose", "spin"}
  /\ ros_ok
  /\ ros_ok' = FALSE
  /\ UNCHANGED <<pc, exit_status, device, queue, adata, last_time,
                 first_pose_received, map_origin, shifter_gear_, shifter_msgs,
                 odom_pos3d, odom_time, gps_pub, odom_pub, tf_pub, cyc, prev,
                 arrived, accepted>>
  /\ UNCHANGED gearlog
  /\ UNCHANGED fnVars

Next ==
  \/ GetParameters
  \/ ConnectSocket
  \/ Cycle
  \/ PutPose
  \/ SpinOnce
  \/ ExitLoop
  \/ PacketArrives
  \/ ShifterMessage
  \/ ShutdownRequest

Spec == Init /\ [][Next]_vars

\* Cycle can be taken exactly at the top of the loop with ros::ok() true: the
\* rest of it is assignments, and it always moves pc.
CycleEnabled == pc = "loop" /\ ros_ok

\* WF_vars(Cycle), written with CycleEnabled for ENABLED <<Cycle>>_vars.
FairCycle == []<>~CycleEnabled \/ []<><<Cycle>>_vars

\* main keeps running: a step of the program that stays possible is taken.
\* The device, the shifter and the shutdown request are under no obligation.
Fairness ==
  /\ WF_vars(GetParameters)
  /\ WF_vars(ConnectSocket)
  /\ FairCycle
  /\ WF_vars(PutPose)
  /\ WF_vars(SpinOnce)
  /\ WF_vars(ExitLoop)

FairSpec == Spec /\ Fairness

\* ------------------------------------------- GlobalToLocal in two runs

driverVars == <<pc, exit_status, ros_ok, device, queue, adata, last_time,
                first_pose_received, map_origin, shifter_gear_, shifter_msgs,
                odom_pos3d, odom_time, gps_pub, odom_pub, tf_pub, cyc, prev,
                arrived, accepted, gearlog>>

\* The global poses handed to GlobalToLocal.
Poses ==
  { [x |-> 12345, y |-> 67890, z |-> 30, roll |-> 1, pitch |-> -2, yaw |-> 90],
    [x |-> 12346, y |-> 67889, z |-> 31, roll |-> 1, pitch |-> -2, yaw |-> 90],
    [x |-> 5000, y |-> 15000, z |-> 0, roll |-> 0, pitch |-> 0, yaw |-> 180],
    [x |-> 5001, y |-> 14999, z |-> 0, roll |-> 0, pitch |-> 0, yaw |-> 180],
    [x |-> 9000, y |-> 74999, z |-> 30, roll |-> -3, pitch |-> 1, yaw |-> -179],
    [x |-> 11000, y |-> 65001, z |-> 30, roll |-> 2, pitch |-> 0, yaw |-> 0],
    [x |-> 25000, y |-> 35000, z |-> 5, roll |-> 0, pitch |-> 4, yaw |-> -90],
    [x |-> 0, y |-> 0, z |-> -2, roll |-> 0, pitch |-> 0, yaw |-> 45] }

\* Run r calls GlobalToLocal on pose p.
Normalize ==
  /\ \E r \in {"A", "B"}, p \in Poses :
       /\ runs[r].calls < MaxCalls
       /\ LET g == GlobalToLocal(runs[r].first_pose_received,
                                 runs[r].map_origin, p)
              isFirst == runs[r].calls = 0
          IN  runs' = [runs EXCEPT ![r] =
                [first_pose_received |-> g.first_pose_received,
                 map_origin |-> g.map_origin,
                 calls |-> runs[r].calls + 1,
                 first_in |-> IF isFirst THEN p ELSE runs[r].first_in,
                 first_out |-> IF isFirst THEN g.current
                               ELSE runs[r].first_out,
                 first_ret |-> IF isFirst THEN g.initial_pose
                               ELSE runs[r].first_ret,
                 last_in |-> p,
                 last_out |-> g.current,
                 last_ret |-> g.initial_pose]]
  /\ UNCHANGED driverVars
  /\ UNCHANGED conv
  /\ UNCHANGED timerVars
  /\ UNCHANGED estopVars

NextRuns == Normalize

SpecRuns == Init /\ [][NextRuns]_vars

\* ---------------------------------------------------- heading conversion

InitYaw ==
  /\ InitDriver
  /\ runs = NoRuns
  /\ conv \in { [heading |-> h, yaw |-> 0, done |-> FALSE] : h \in 0..MaxHeading }
  /\ timer = NavTimer(1, 0, FALSE)
  /\ tlog = NoLog(timer)
  /\ estop = NavEstopState
  /\ elog = NoEstopLog

\* getOdom's pose for a packet with the heading, as GlobalToLocal leaves it.
ConvertHeading ==
  /\ ~conv.done
  /\ LET ad == [ZeroData EXCEPT !.heading = conv.heading]
         g == GlobalToLocal(FALSE, ZeroPose, GlobalPose(ad))
     IN  conv' = [conv EXCEPT !.yaw = g.current.yaw, !.done = TRUE]
  /\ UNCHANGED driverVars
  /\ UNCHANGED runs
  /\ UNCHANGED timerVars
  /\ UNCHANGED estopVars

NextYaw == ConvertHeading

SpecYaw == InitYaw /\ [][NextYaw]_vars

\* ---------------------------------------------------------------- NavTimer

\* A NavTimer as constructed, for a cycle of any period and any contents of
\* the storage it was built in.
InitTimer ==
  /\ InitDriver
  /\ runs = NoRuns
  /\ conv = NoConv
  /\ timer \in { NavTimer(c, tr, run) :
                    c \in Periods, tr \in Durations, run \in BOOLEAN }
  /\ tlog = NoLog(timer)
  /\ estop = NavEstopState
  /\ elog = NoEstopLog

\* The log after a call op(duration) that left the timer as new: a call that
\* changed the timer to running with the duration remaining has set it.
Logged(op, duration, new, ret) ==
  LET sets == op \in {"Start", "Restart"} /\ new # timer
      counts == op = "Check" /\ timer.timer_running
  IN  [op |-> op, duration |-> duration, before |-> timer, ret |-> ret,
       set |-> tlog.set \/ op = "Start" \/ sets,
       started |-> IF op = "Start" \/ sets THEN duration ELSE tlog.started,
       checks |-> IF op = "Start" \/ sets THEN 0
                  ELSE IF counts THEN tlog.checks + 1 ELSE tlog.checks,
       skipped |-> IF op = "Start" \/ sets THEN 0
                   ELSE IF op = "skip" THEN tlog.skipped + 1
                   ELSE tlog.skipped,
       ops |-> tlog.ops + 1]

TimerStart ==
  /\ tlog.ops < MaxOps
  /\ \E duration \in Durations :
       /\ timer' = Start(timer, duration)
       /\ tlog' = Logged("Start", duration, timer', FALSE)
  /\ UNCHANGED driverVars
  /\ UNCHANGED <<runs, conv>>
  /\ UNCHANGED estopVars

TimerRestart ==
  /\ tlog.ops < MaxOps
  /\ \E duration \in Durations :
       /\ timer' = Restart(timer, duration)
       /\ tlog' = Logged("Restart", duration, timer', FALSE)
  /\ UNCHANGED driverVars
  /\ UNCHANGED <<runs, conv>>
  /\ UNCHANGED estopVars

TimerCheck ==
  /\ tlog.ops < MaxOps
  /\ LET c == Check(timer)
     IN  /\ timer' = c.timer
         /\ tlog' = Logged("Check", 0, c.timer, c.ret)
  /\ UNCHANGED driverVars
  /\ UNCHANGED <<runs, conv>>
  /\ UNCHANGED estopVars

TimerCancel ==
  /\ tlog.ops < MaxOps
  /\ timer' = Cancel(timer)
  /\ tlog' = Logged("Cancel", 0, timer', FALSE)
  /\ UNCHANGED driverVars
  /\ UNCHANGED <<runs, conv>>
  /\ UNCHANGED estopVars

\* A cycle in which the owner of the timer does not call Check.
SkippedCycle ==
  /\ tlog.ops < MaxOps
  /\ timer' = timer
  /\ tlog' = Logged("skip", 0, timer, FALSE)
  /\ UNCHANGED driverVars
  /\ UNCHANGED <<runs, conv>>
  /\ UNCHANGED estopVars

NextTimer ==
  \/ TimerStart
  \/ TimerRestart
  \/ TimerCheck
  \/ TimerCancel
  \/ SkippedCycle

SpecTimer == InitTimer /\ [][NextTimer]_vars

\* ---------------------------------------------------------- NavEstopState

\* A call op(arg) that left the state as it is now.
Set(op, arg) ==
  [op |-> op, set_by |-> op, arg |-> arg, name |-> elog.name,
   in_table |-> elog.in_table]

\* NavEstopState(): a default-constructed object takes the place of estop.
EstopDefault ==
  /\ estop' = NavEstopState
  /\ elog' = Set("NavEstopState()", Pause)
  /\ UNCHANGED driverVars
  /\ UNCHANGED <<runs, conv, timer, tlog>>

\* NavEstopState(state_t &istate).
EstopFromState ==
  /\ \E istate \in StateValues :
       /\ estop' = [state |-> istate]
       /\ elog' = Set("NavEstopState(state_t)", istate)
  /\ UNCHANGED driverVars
  /\ UNCHANGED <<runs, conv, timer, tlog>>

\* NavEstopState(const art_nav::EstopState &estop_msg).
EstopFromMessage ==
  /\ \E value \in Values, s \in Values :
       /\ s \in CastToState(value)
       /\ estop' = [state |-> s]
       /\ elog' = Set("NavEstopState(EstopState)", value)
  /\ UNCHANGED driverVars
  /\ UNCHANGED <<runs, conv, timer, tlog>>

\* operator=(const state_t &newstate).
EstopAssignState ==
  /\ \E newstate \in StateValues :
       /\ estop' = [estop EXCEPT !.state = newstate]
       /\ elog' = Set("operator=(state_t)", newstate)
  /\ UNCHANGED driverVars
  /\ UNCHANGED <<runs, conv, timer, tlog>>

\* operator=(uint16_t value).
EstopAssignValue ==
  /\ \E value \in Values, s \in Values :
       /\ s \in CastToState(value)
       /\ estop' = [estop EXCEPT !.state = s]
       /\ elog' = Set("operator=(uint16_t)", value)
  /\ UNCHANGED driverVars
  /\ UNCHANGED <<runs, conv, timer, tlog>>

\* Name().
EstopName ==
  /\ \E n \in NameLookup(estop.state) :
       elog' = [elog EXCEPT !.op = "Name()", !.name = n,
                            !.in_table = (estop.state < N_states)]
  /\ UNCHANGED estop
  /\ UNCHANGED driverVars
  /\ UNCHANGED <<runs, conv, timer, tlog>>

InitEstop == Init

NextEstop ==
  \/ EstopDefault
  \/ EstopFromState
  \/ EstopFromMessage
  \/ EstopAssignState
  \/ EstopAssignValue
  \/ EstopName

SpecEstop == InitEstop /\ [][NextEstop]_vars

\* ------------------------------------------------------------------ claims

\* Idle until GlobalToLocal has seen its first pose, Tracking after.
Idle == ~first_pose_received

NothingPublished == gps_pub = <<>> /\ odom_pub = <<>> /\ tf_pub = <<>>

\* C1, as stated: in the cycle that processes the first accepted sample,
\* GlobalToLocal reports the initial pose and nothing at all is published,
\* the GPS-quality record included.
C1_Original ==
  cyc.first_accept => (cyc.initial /\ NothingPublished)

\* C1, amended: in the cycle that processes the first accepted sample,
\* GlobalToLocal reports the initial pose, getOdom returns false, and neither
\* an Odometry message nor a transform is published; the GpsInfo message of
\* that sample is published, once.
C1_FirstCallSuppression ==
  cyc.first_accept =>
    /\ cyc.initial
    /\ ~cyc.ret
    /\ odom_pub = <<>>
    /\ tf_pub = <<>>
    /\ Len(gps_pub) = 1
    /\ gps_pub[1].stamp = cyc.newest.time

C1_Witness ==
  cyc.first_accept /\ pc = "loop" /\ cyc.newest.alignment = "Full"

\* C2: map_origin is not written before the first accepted sample, no cycle
\* other than the one that accepts the first sample changes it, and every
\* published position (Odometry and transform) is the sample's
\* (easting, northing, altitude) minus map_origin.
C2_MapOriginImmutable ==
  /\ ~accepted => map_origin = ZeroPose
  /\ (cyc.ran /\ ~cyc.first_accept) => map_origin = cyc.origin_before
  /\ \A i \in DOMAIN odom_pub :
       /\ odom_pub[i].pose.x = cyc.newest.utm_e - map_origin.x
       /\ odom_pub[i].pose.y = cyc.newest.utm_n - map_origin.y
       /\ odom_pub[i].pose.z = cyc.newest.alt - map_origin.z
  /\ \A i \in DOMAIN tf_pub :
       /\ tf_pub[i].x = cyc.newest.utm_e - map_origin.x
       /\ tf_pub[i].y = cyc.newest.utm_n - map_origin.y
       /\ tf_pub[i].z = cyc.newest.alt - map_origin.z

C2_Witness ==
  /\ odom_pub # <<>>
  /\ prev.had /\ ~prev.got
  /\ shifter_gear_ = "Reverse"
  /\ map_origin # ZeroPose
  /\ odom_pub[1].pose.z # 0

\* C3, as stated: when two successive getNewData calls each end with a
\* newest packet of the same timestamp, the second returns false, whatever
\* the first call did.
C3_Original ==
  (prev.had /\ cyc.had /\ cyc.newest.time = prev.time) => ~cyc.got

\* C3, amended: when two successive getNewData calls each end with a newest
\* packet of the same timestamp, and the first call either accepted its packet
\* or rejected it as a duplicate of last_time, the second call returns false.
C3_DuplicateTimestamp ==
  ( /\ prev.had /\ cyc.had /\ cyc.newest.time = prev.time
    /\ (prev.got \/ prev.time = prev.last_before) ) => ~cyc.got

C3_Witness ==
  /\ prev.had /\ prev.got
  /\ cyc.had /\ cyc.newest.time = prev.time
  /\ cyc.newest.alignment # "Invalid"
  /\ ~cyc.got

\* C4: when the newest packet drained in a cycle has alignment Invalid,
\* getNewData returns false, last_time keeps the value it had before the
\* cycle, and a driver that was Idle is still Idle.
C4_AlignmentGating ==
  (cyc.had /\ cyc.newest.alignment = "Invalid") =>
    /\ ~cyc.got
    /\ last_time = cyc.last_before
    /\ (cyc.idle_before => Idle)

C4_Witness ==
  /\ cyc.had /\ cyc.newest.alignment = "Invalid"
  /\ cyc.newest.time # cyc.last_before
  /\ cyc.idle_before
  /\ pc = "loop"

\* C5: getNewData leaves no packet queued; the saved packet is the last one
\* removed; acceptance is decided by that packet alone; every message
\* published in the cycle is made from it; and a cycle that removed no packet
\* accepts and publishes nothing.
C5_DrainToLatest ==
  cyc.ran =>
    /\ cyc.left = 0
    /\ cyc.had => adata = cyc.newest
    /\ cyc.got <=> ( /\ cyc.had
                     /\ cyc.newest.time # cyc.last_before
                     /\ cyc.newest.alignment # "Invalid" )
    /\ ~cyc.had => NothingPublished
    /\ \A i \in DOMAIN gps_pub :
         /\ gps_pub[i].stamp = cyc.newest.time
         /\ gps_pub[i].utm_e = cyc.newest.utm_e
         /\ gps_pub[i].utm_n = cyc.newest.utm_n
         /\ gps_pub[i].altitude = cyc.newest.alt
    /\ \A i \in DOMAIN odom_pub :
         /\ odom_pub[i].stamp = cyc.newest.time
         /\ odom_pub[i].pose.x = cyc.newest.utm_e - map_origin.x
         /\ odom_pub[i].pose.y = cyc.newest.utm_n - map_origin.y
         /\ odom_pub[i].twist.z = -cyc.newest.vel_down

C5_Witness ==
  cyc.n >= 2 /\ odom_pub # <<>> /\ prev.had /\ prev.got

\* C6: every published Odometry message has linear velocity x equal to the
\* negated speed of its sample when the gear read by the cycle is Reverse and
\* to the speed itself for any other gear, and linear velocity y equal to 0.
C6_GearSignFlip ==
  \A i \in DOMAIN odom_pub :
    /\ cyc.gear = "Reverse" => odom_pub[i].twist.x = -cyc.newest.speed
    /\ cyc.gear # "Reverse" => odom_pub[i].twist.x = cyc.newest.speed
    /\ odom_pub[i].twist.y = 0

C6_Witness ==
  odom_pub # <<>> /\ cyc.gear = "Reverse" /\ odom_pub[1].twist.x < 0

\* C7: for every compass heading the yaw of the pose lies in (-180, 180]
\* degrees and differs from 90 minus the heading by a whole number of turns;
\* heading 0 gives 90 degrees and heading 90 gives 0.
C7_YawNormalization ==
  conv.done =>
    /\ conv.yaw > -180
    /\ conv.yaw <= 180
    /\ (conv.yaw - (90 - conv.heading)) % 360 = 0
    /\ conv.heading = 0 => conv.yaw = 90
    /\ conv.heading = 90 => conv.yaw = 0

C7_Witness ==
  conv.done /\ conv.heading = 270 /\ conv.yaw = 180

Abs(v) == IF v < 0 THEN -v ELSE v

Started(r) == runs[r].calls >= 1

\* C8: after the first call of a run, map_origin.x and map_origin.y are
\* multiples of 10,000 at most 5,000 away from the first pose's x and y,
\* (12345, 67890) giving (10000, 70000), and map_origin.z is its z.
C8_GridSnapping ==
  \A r \in DOMAIN runs :
    Started(r) =>
      /\ runs[r].map_origin.x % origin_grid = 0
      /\ runs[r].map_origin.y % origin_grid = 0
      /\ 2 * Abs(runs[r].first_in.x - runs[r].map_origin.x) <= origin_grid
      /\ 2 * Abs(runs[r].first_in.y - runs[r].map_origin.y) <= origin_grid
      /\ runs[r].map_origin.z = runs[r].first_in.z
      /\ (runs[r].first_in.x = 12345 /\ runs[r].first_in.y = 67890) =>
           (runs[r].map_origin.x = 10000 /\ runs[r].map_origin.y = 70000)

C8_Witness ==
  /\ runs["A"].calls = 2
  /\ runs["A"].first_in.x = 12345 /\ runs["A"].first_in.y = 67890
  /\ runs["A"].map_origin.x = 10000 /\ runs["A"].map_origin.y = 70000
  /\ Started("B")
  /\ runs["B"].first_in.x = 5000 /\ runs["B"].map_origin.x = 0

\* C9, as stated: the first call of a run yields the local position
\* x = 0, y = 0, z = altitude - origin.z.
C9_Original ==
  \A r \in DOMAIN runs :
    Started(r) =>
      /\ runs[r].first_out.x = 0
      /\ runs[r].first_out.y = 0
      /\ runs[r].first_out.z = runs[r].first_in.z - runs[r].map_origin.z

\* C9, amended: the first call of a run reports the initial pose and yields
\* x and y equal to the pose's offset from the grid-snapped origin, at most
\* 5,000 in magnitude, and z = altitude - origin.z = 0.
C9_FirstLocalPosition ==
  \A r \in DOMAIN runs :
    Started(r) =>
      /\ runs[r].first_ret
      /\ runs[r].first_out.x = runs[r].first_in.x - runs[r].map_origin.x
      /\ runs[r].first_out.y = runs[r].first_in.y - runs[r].map_origin.y
      /\ 2 * Abs(runs[r].first_out.x) <= origin_grid
      /\ 2 * Abs(runs[r].first_out.y) <= origin_grid
      /\ runs[r].first_out.z = runs[r].first_in.z - runs[r].map_origin.z
      /\ runs[r].first_out.z = 0

C9_Witness ==
  /\ Started("A")
  /\ runs["A"].first_in.z = 30
  /\ runs["A"].first_out.x = 2345
  /\ runs["A"].first_out.y = -2110
  /\ runs["A"].first_out.z = 0

SameOrigin ==
  /\ runs["A"].map_origin.x = runs["B"].map_origin.x
  /\ runs["A"].map_origin.y = runs["B"].map_origin.y
  /\ runs["A"].map_origin.z = runs["B"].map_origin.z

SameLater ==
  (runs["A"].calls >= 2 /\ runs["B"].calls >= 2
   /\ runs["A"].last_in = runs["B"].last_in) =>
     runs["A"].last_out = runs["B"].last_out

\* C10, as stated: two runs whose first poses differ by at most 1 m in x and
\* in y select the same map_origin, and the same later pose then has the same
\* local pose in both.
C10_Original ==
  ( /\ Started("A") /\ Started("B")
    /\ Abs(runs["A"].first_in.x - runs["B"].first_in.x) <= 1
    /\ Abs(runs["A"].first_in.y - runs["B"].first_in.y) <= 1 ) =>
      (SameOrigin /\ SameLater)

\* v and w are both less than half a grid step away from one grid line.
SameCell(v, w) ==
  \E k \in {v \div origin_grid, v \div origin_grid + 1} :
    /\ 2 * Abs(v - k * origin_grid) < origin_grid
    /\ 2 * Abs(w - k * origin_grid) < origin_grid

\* C10, amended: two runs whose first poses have the same altitude and lie,
\* in x and in y, less than 5,000 m from the same multiple of 10,000 select
\* the same map_origin, and the same later pose then has the same local pose
\* in both.
C10_RestartReproducibility ==
  ( /\ Started("A") /\ Started("B")
    /\ SameCell(runs["A"].first_in.x, runs["B"].first_in.x)
    /\ SameCell(runs["A"].first_in.y, runs["B"].first_in.y)
    /\ runs["A"].first_in.z = runs["B"].first_in.z ) =>
      (SameOrigin /\ SameLater)

C10_Witness ==
  /\ runs["A"].calls = 2 /\ runs["B"].calls = 2
  /\ runs["A"].first_in.x = 9000 /\ runs["B"].first_in.x = 11000
  /\ runs["A"].last_in = runs["B"].last_in
  /\ runs["A"].last_in.x = 25000
  /\ runs["A"].last_out = runs["B"].last_out
  /\ runs["A"].map_origin.x = 10000 /\ runs["B"].map_origin.x = 10000


\* The position of pose p minus that of pose q.
Delta(p, q) == <<p.x - q.x, p.y - q.y, p.z - q.z>>

Angles(p) == <<p.roll, p.pitch, p.yaw>>

\* C11: two poses normalized against the same map_origin (two calls of one
\* run, or calls of two runs that selected the same origin) have local
\* positions whose difference is the difference of their global positions,
\* and GlobalToLocal leaves roll, pitch and yaw as they were.
C11_TranslationInvariance ==
  /\ \A r \in DOMAIN runs :
       /\ Started(r) => Angles(runs[r].first_out) = Angles(runs[r].first_in)
       /\ Started(r) => Angles(runs[r].last_out) = Angles(runs[r].last_in)
       /\ runs[r].calls >= 2 =>
            Delta(runs[r].last_out, runs[r].first_out)
              = Delta(runs[r].last_in, runs[r].first_in)
  /\ (Started("A") /\ Started("B") /\ SameOrigin) =>
       Delta(runs["A"].last_out, runs["B"].last_out)
         = Delta(runs["A"].last_in, runs["B"].last_in)

C11_Witness ==
  /\ runs["A"].calls = 2
  /\ runs["A"].first_in.x = 12345
  /\ runs["A"].last_in.x = 25000
  /\ runs["A"].last_in.yaw = -90
  /\ Delta(runs["A"].last_out, runs["A"].first_out) = <<12655, -32890, -25>>
  /\ runs["B"].calls = 2
  /\ SameOrigin
  /\ runs["B"].last_in.x = 5001


InLoop == pc \in {"loop", "putPose", "spin"}

\* The device interface exists and connect_socket has not succeeded.
NeverConnected == device = "created"

\* C12: when connect_socket fails main returns 2, a status that is not 0 and
\* that no other exit returns, without having entered the loop or published
\* anything; the loop runs only with the socket connected; and once the loop
\* has been entered main returns only after ros::ok() has turned false.
C12_SourceUnavailable ==
  /\ (pc = "done" /\ NeverConnected) =>
       /\ exit_status = <<ExitNoDevice>>
       /\ ~cyc.ran
       /\ NothingPublished
  /\ exit_status = <<ExitNoDevice>> => (pc = "done" /\ NeverConnected)
  /\ ExitNoDevice # 0
  /\ InLoop => (device = "open" /\ exit_status = <<>>)
  /\ (pc = "done" /\ device \notin {"none", "created"}) =>
       (~ros_ok /\ exit_status = <<ExitOk>> /\ device = "deleted")

C12_Witness ==
  pc = "done" /\ NeverConnected /\ exit_status = <<ExitNoDevice>>


\* C13: a cycle whose getNewData returned false (nothing queued, duplicate
\* timestamp or Invalid alignment) publishes nothing and leaves last_time,
\* map_origin, the Idle/Tracking state and odom_pos3d / odom_time as they
\* were when it began.
C13_NoNewDataFrame ==
  (cyc.ran /\ ~cyc.got) =>
    /\ NothingPublished
    /\ last_time = cyc.last_before
    /\ map_origin = cyc.origin_before
    /\ Idle = cyc.idle_before
    /\ cyc.pos3d_kept
    /\ ~cyc.ret

C13_Witness ==
  /\ cyc.ran /\ ~cyc.got /\ cyc.had
  /\ cyc.newest.alignment = "Invalid"
  /\ cyc.newest.time # cyc.last_before
  /\ ~Idle
  /\ odom_pos3d.vel.x # 0
  /\ pc = "loop"

\* C14: of the Odometry messages published since the newest shifter message
\* arrived, at most one comes from a cycle that read another gear; and when
\* spinOnce has dispatched every queued shifter message, shifter_gear_ is the
\* gear of the newest one.
C14_BoundedGearStaleness ==
  /\ gearlog.stale <= 1
  /\ shifter_msgs = <<>> => shifter_gear_ = gearlog.last

C14_Witness ==
  /\ gearlog.stale = 1
  /\ gearlog.last = "Reverse"
  /\ cyc.gear = "Park"
  /\ shifter_gear_ = "Reverse"
  /\ odom_pub # <<>>
  /\ pc = "loop"


\* C17: in every cycle the Odometry message and the transform are published
\* together or not at all, at most once each; when published, the cycle
\* accepted a sample, both carry that sample's time stamp, and the transform's
\* translation and rotation are the Odometry message's pose.
PoseOfTransform(t) ==
  [x |-> t.x, y |-> t.y, z |-> t.z,
   roll |-> t.roll, pitch |-> t.pitch, yaw |-> t.yaw]

C17_PublishedTogether ==
  /\ Len(odom_pub) <= 1
  /\ Len(tf_pub) <= 1
  /\ pc = "putPose" => (odom_pub = <<>> /\ tf_pub = <<>>)
  /\ Len(odom_pub) = Len(tf_pub)
  /\ odom_pub # <<>> =>
       /\ cyc.got
       /\ odom_pub[1].stamp = cyc.newest.time
       /\ tf_pub[1].stamp = odom_pub[1].stamp
       /\ PoseOfTransform(tf_pub[1]) = odom_pub[1].pose

C17_Witness ==
  /\ Len(odom_pub) = 1 /\ Len(tf_pub) = 1
  /\ odom_pub[1].stamp = 2
  /\ tf_pub[1].x = odom_pub[1].pose.x
  /\ odom_pub[1].pose.x # 0
  /\ pc = "loop"

\* C20: every published GpsInfo has quality GPS_FIX (alignment Fine) or
\* DGPS_FIX (alignment Full), never INVALID_FIX, whatever samples with
\* alignment Invalid, Fine or Full the device delivered.
C20_NoInvalidGps ==
  \A i \in 1..Len(gps_pub) :
    /\ gps_pub[i].quality \in {"GPS_FIX", "DGPS_FIX"}
    /\ gps_pub[i].quality = "GPS_FIX" <=> cyc.newest.alignment = "Fine"
    /\ gps_pub[i].quality = "DGPS_FIX" <=> cyc.newest.alignment = "Full"

C20_Witness ==
  /\ Len(gps_pub) = 1
  /\ gps_pub[1].quality = "DGPS_FIX"
  /\ prev.had /\ ~prev.got /\ prev.time # prev.last_before
  /\ cyc.first_accept
  /\ pc = "loop"


\* C18: Restart(d) on a timer that is running with time remaining > 0 leaves
\* time_remaining and timer_running as they were; on a timer that is not
\* running or has no time remaining it leaves the timer running with d
\* remaining, as Start(d) does.
C18_Restart ==
  tlog.op = "Restart" =>
    /\ timer.cycle = tlog.before.cycle
    /\ IF tlog.before.timer_running /\ tlog.before.time_remaining > 0
       THEN /\ timer.time_remaining = tlog.before.time_remaining
            /\ timer.timer_running = tlog.before.timer_running
       ELSE /\ timer.timer_running
            /\ timer.time_remaining = tlog.duration
            /\ timer = Start(tlog.before, tlog.duration)

C18_Witness ==
  /\ tlog.op = "Restart"
  /\ tlog.before.timer_running
  /\ tlog.before.time_remaining = 1
  /\ tlog.duration = 3
  /\ timer.time_remaining = 1
  /\ tlog.checks = 1

\* C19: once a Start has taken effect, time_remaining is its duration less
\* one cycle period for every Check call made since while the timer was
\* running, whatever else was called and however many cycles were skipped;
\* Check returns true exactly when it found the timer running and the time
\* remaining after its decrement is <= 0; a Check that finds the timer not
\* running returns false and changes nothing.
C19_CheckCounts ==
  /\ tlog.set =>
       timer.time_remaining = tlog.started - tlog.checks * timer.cycle
  /\ tlog.op = "skip" => timer = tlog.before
  /\ tlog.op = "Check" =>
       /\ tlog.ret <=> (tlog.before.timer_running /\ timer.time_remaining <= 0)
       /\ tlog.before.timer_running =>
            /\ timer.time_remaining =
                 tlog.before.time_remaining - timer.cycle
            /\ timer.timer_running
       /\ ~tlog.before.timer_running => (~tlog.ret /\ timer = tlog.before)

C19_Witness ==
  /\ tlog.op = "Check"
  /\ tlog.ret
  /\ timer.time_remaining = 0
  /\ tlog.started = 2
  /\ tlog.checks = 2
  /\ tlog.skipped = 1


\* The newest queued packet would be accepted by getNewData.
NewestGood ==
  /\ InLoop
  /\ queue # <<>>
  /\ queue[Len(queue)].alignment # "Invalid"
  /\ queue[Len(queue)].time # last_time

\* The same with the timestamp compared only with an accepted one.
NewestGoodAsStated ==
  /\ InLoop
  /\ queue # <<>>
  /\ queue[Len(queue)].alignment # "Invalid"
  /\ accepted => queue[Len(queue)].time # last_time

\* After arrived = k packets had come, a cycle has emptied the queue and
\* accepted the newest of them: it began Idle and left the driver Tracking,
\* or it began Tracking and its Odometry message is published.
AcceptedNewest(k) ==
  /\ arrived = k
  /\ queue = <<>>
  /\ cyc.got
  /\ ~Idle
  /\ cyc.idle_before
       \/ (odom_pub # <<>> /\ odom_pub[1].stamp = cyc.newest.time)

NeverBackToIdle == [][first_pose_received => first_pose_received']_vars

LoopExitAtTop ==
  [][(pc \in {"loop", "putPose", "spin"} /\ pc' = "done")
       => (pc = "loop" /\ ~ros_ok)]_vars

NothingAfterShutdownSeen ==
  [][(~ros_ok /\ pc \in {"loop", "done"})
       => (/\ pc' \in {pc, "done"}
           /\ UNCHANGED <<gps_pub, odom_pub, tf_pub, cyc>>)]_vars

ReleasedOnce ==
  /\ [][(device # "deleted" /\ device' = "deleted")
         => (pc = "loop" /\ ~ros_ok /\ pc' = "done")]_vars
  /\ [][device = "deleted" => device' = "deleted"]_vars
  /\ []((pc = "done" /\ exit_status = <<ExitOk>>) => device = "deleted")

C16_CooperativeShutdown ==
  /\ LoopExitAtTop
  /\ NothingAfterShutdownSeen
  /\ ReleasedOnce
  /\ (~ros_ok /\ InLoop)
       ~> (pc = "done" /\ exit_status = <<ExitOk>> /\ device = "deleted")

C16_Witness ==
  /\ pc = "done"
  /\ exit_status = <<ExitOk>>
  /\ device = "deleted"
  /\ ~ros_ok
  /\ accepted
  /\ odom_pub # <<>>


\* C21, as stated: a default-constructed NavEstopState is in Pause, and after
\* any constructions and assignments its state is one of Done, Pause, Run,
\* so that every Name() indexes state_name inside its three entries and
\* returns the state's name.
C21_Original ==
  /\ elog.set_by = "NavEstopState()" => estop.state = Pause
  /\ estop.state \in {Done, Pause, Run}
  /\ elog.op = "Name()" =>
       (elog.in_table /\ elog.name = state_name[estop.state + 1])

====
